---- MODULE Spec2Model ----
(***************************************************************************)
(* Model of raytracing/drawing.py: the Drawing class, a list of matplotlib *)
(* patches that is placed on an Axes with an auto-scaled transform.        *)
(*                                                                         *)
(* The state is one Drawing (components, axes, x, y), the patches it holds *)
(* (their transform, their owning Axes and their removal hook) and the     *)
(* Axes of the figure it is drawn on (view limits and list of children).   *)
(*                                                                         *)
(* Numbers.  Coordinates and view extents are integers.  The horizontal    *)
(* scale xScale * (heightFactor / 0.2) ** (3 / 4) is irrational in general *)
(* and is carried exactly, as the reduced fraction equal to its FOURTH     *)
(* POWER (all modelled quantities are non-negative, where r |-> r^4 is     *)
(* one-to-one).  Floating-point rounding is not modelled.                  *)
(***************************************************************************)
EXTENDS Integers, Sequences, FiniteSets, TLC

(***************************************************************************)
(* Bounds of the model.                                                    *)
(***************************************************************************)
MaxComponents == 2
MaxChildren == 4

\* The Axes of the figure (fig, axes = plt.subplots()).
AxesSet == {"ax1"}
Coords == {0, 1}
ViewExtents == {1, 2}

\* Python's None for an optional number, and a present number.
None == <<>>
Some(v) == <<v>>
Val(o) == o[1]
OptCoords == {None} \cup {Some(v) : v \in Coords}
\* Python's None for the axes reference.
NoAxes == "None"

(***************************************************************************)
(* Patches.  A patch is its vertex array get_xy(): a sequence of <<x, y>>  *)
(* rows.  The patches drawn on: an arrow from the origin down to (3, -2),  *)
(* an arrow from the origin up to (-1, 1), and a flat stroke at y = 1.     *)
(***************************************************************************)
ArrowDown == << <<0, 0>>, <<3, -2>> >>
ArrowUp == << <<0, 0>>, <<-1, 1>> >>
Stroke == << <<0, 1>>, <<2, 1>> >>
PatchSet == {ArrowDown, ArrowUp, Stroke}

RECURSIVE SeqsUpTo(_, _)
SeqsUpTo(S, n) ==
    IF n = 0 THEN { <<>> }
    ELSE LET shorter == SeqsUpTo(S, n - 1)
         IN  shorter \cup { Append(s, e) : s \in { t \in shorter : Len(t) = n - 1 }, e \in S }

VARIABLES
    components,   \* self.components: sequence of patches (vertex arrays)
    axes,         \* self.axes: NoAxes or an element of AxesSet
    x,            \* self.x: None or Some(number)
    y,            \* self.y: None or Some(number)
    artist,       \* per component: its transform, its Axes, its removal hook
    view,         \* per Axes: viewLim.bounds[2:], the view's width and height
    children,     \* per Axes: the list of registered patches (component indices)
    last          \* the last call made, its arguments and how it ended

vars == <<components, axes, x, y, artist, view, children, last>>

(***************************************************************************)
(* Exact arithmetic on non-negative rationals [num, den], den > 0.         *)
(***************************************************************************)
RECURSIVE GCD(_, _)
GCD(a, b) == IF b = 0 THEN a ELSE GCD(b, a % b)

Frac(n, d) == LET g == GCD(n, d) IN [num |-> n \div g, den |-> d \div g]
FracDiv(p, q) == Frac(p.num * q.den, p.den * q.num)
FracMul(p, q) == Frac(p.num * q.num, p.den * q.den)
FracCube(p) == [num |-> p.num * p.num * p.num, den |-> p.den * p.den * p.den]
Pow4(n) == n * n * n * n

\* np.max / np.min of a non-empty list of integers.
NpMax(s) == CHOOSE m \in { s[i] : i \in DOMAIN s } : \A i \in DOMAIN s : s[i] <= m
NpMin(s) == CHOOSE m \in { s[i] : i \in DOMAIN s } : \A i \in DOMAIN s : m <= s[i]

(***************************************************************************)
(* Outcomes of a call: it completes, or it raises.                         *)
(***************************************************************************)
NoFault == "ok"
AttributeError == "AttributeError"            \* None has no attribute viewLim
ValueError == "ValueError"                    \* empty reduction, list.remove, Axes reset
NotImplementedError == "NotImplementedError"  \* cannot remove artist

(***************************************************************************)
(* Transforms.  scaling + translation + transData applies the scale first, *)
(* then the translation, then the data-to-screen transform of an Axes.     *)
(* transData is held by reference, so only the Axes is recorded.  sx is    *)
(* the fourth power of the horizontal scale.  A patch that was never given *)
(* a transform has the identity.                                           *)
(***************************************************************************)
IdentityTransform ==
    [order |-> <<>>, sx |-> Frac(1, 1), sy |-> 1, tx |-> 0, ty |-> 0, data |-> NoAxes]

Compose(scaling, translation, transData) ==
    [order |-> <<"scale", "translate", "transData">>,
     sx |-> scaling[1], sy |-> scaling[2],
     tx |-> translation[1], ty |-> translation[2],
     data |-> transData]

NewArtist == [transform |-> IdentityTransform, axes |-> NoAxes, removeMethod |-> NoAxes]

(***************************************************************************)
(* Drawing.height                                                          *)
(***************************************************************************)
\* np.max(xy, axis=0) and np.min(xy, axis=0): the column-wise extrema.
ColumnMax(xy) == << NpMax([i \in DOMAIN xy |-> xy[i][1]]), NpMax([i \in DOMAIN xy |-> xy[i][2]]) >>
ColumnMin(xy) == << NpMin([i \in DOMAIN xy |-> xy[i][1]]), NpMin([i \in DOMAIN xy |-> xy[i][2]]) >>

\* Variant: the tops are read from column 0, the x column.
TopsOfColumn0(comps) == [i \in DOMAIN comps |-> ColumnMax(comps[i])[1]]

\* top.append(np.max(component.get_xy(), axis=0)[1]); Python's [1] is the y column.
Tops(comps) == [i \in DOMAIN comps |-> ColumnMax(comps[i])[2]]
Bottoms(comps) == [i \in DOMAIN comps |-> ColumnMin(comps[i])[2]]

\* Variant: an empty component list is given the height 0 instead of raising.
heightGuarded(comps) ==
    IF Len(comps) = 0
    THEN [fault |-> NoFault, value |-> 0]
    ELSE [fault |-> NoFault, value |-> NpMax(Tops(comps)) - NpMin(Bottoms(comps))]

height(comps) ==
    IF Len(comps) = 0
    THEN [fault |-> ValueError, value |-> 0]
    ELSE [fault |-> NoFault, value |-> NpMax(Tops(comps)) - NpMin(Bottoms(comps))]

(***************************************************************************)
(* Drawing.axesToDataScale and Drawing.scaling                             *)
(***************************************************************************)
axesToDataScale(selfAxes) ==
    IF selfAxes = NoAxes
    THEN [fault |-> AttributeError, xScale |-> 0, yScale |-> 0]
    ELSE [fault |-> NoFault, xScale |-> view[selfAxes].w, yScale |-> view[selfAxes].h]

\* Variant: the factor xScale is left out of the product.
XScalingNoWidth(xScale, yScale, h) ==
    LET heightFactor == Frac(h, yScale)
    IN  FracCube(FracDiv(heightFactor, Frac(1, 5)))

\* The fourth power of xScale * (heightFactor / 0.2) ** (3 / 4); 0.2 is 1/5.
XScaling(xScale, yScale, h) ==
    LET heightFactor == Frac(h, yScale)
    IN  FracMul(Frac(Pow4(xScale), 1), FracCube(FracDiv(heightFactor, Frac(1, 5))))

scaling(selfAxes, comps) ==
    LET s == axesToDataScale(selfAxes)
        h == height(comps)
    IN  IF s.fault # NoFault THEN [fault |-> s.fault, value |-> <<Frac(0, 1), 1>>]
        ELSE IF h.fault # NoFault THEN [fault |-> h.fault, value |-> <<Frac(0, 1), 1>>]
        ELSE [fault |-> NoFault, value |-> <<XScaling(s.xScale, s.yScale, h.value), 1>>]

(***************************************************************************)
(* Drawing.update                                                          *)
(***************************************************************************)
\* Variant: "if x:", which takes the number 0 for an omitted argument.
OverwriteIfTruthy(stored, given) ==
    IF given # None /\ Val(given) # 0 THEN given ELSE stored

\* Variant: "self.x += x", a move relative to the stored coordinate.
OverwriteRelative(stored, given) ==
    IF given # None /\ stored # None THEN Some(Val(stored) + Val(given))
    ELSE IF given # None THEN given ELSE stored

\* if x is not None: self.x = x
Overwrite(stored, given) == IF given # None THEN given ELSE stored

\* Variant: the loop starts at the second component.
SetTransformsFromSecond(art, t) ==
    [i \in DOMAIN art |-> IF i = 1 THEN art[i] ELSE [art[i] EXCEPT !.transform = t]]

\* for component in self.components: component.set_transform(t)
SetTransforms(art, t) == [i \in DOMAIN art |-> [art[i] EXCEPT !.transform = t]]

\* Variant: the scale of the first call is kept, only the translation is redone.
RetransformKeepScale(selfAxes, sx, sy, comps, art) ==
    LET sc == scaling(selfAxes, comps)
        old == art[1].transform
        kept == IF old.order # <<>> THEN <<old.sx, old.sy>> ELSE sc.value
    IN  IF sc.fault # NoFault
        THEN [fault |-> sc.fault, artist |-> art]
        ELSE [fault |-> NoFault,
              artist |-> SetTransforms(art, Compose(kept, <<Val(sx), Val(sy)>>, selfAxes))]

\* The part of update after the coordinates are stored.
Retransform(selfAxes, sx, sy, comps, art) ==
    LET sc == scaling(selfAxes, comps)
    IN  IF sc.fault # NoFault
        THEN [fault |-> sc.fault, artist |-> art]
        ELSE [fault |-> NoFault,
              artist |-> SetTransforms(art, Compose(sc.value, <<Val(sx), Val(sy)>>, selfAxes))]

(***************************************************************************)
(* Axes.add_patch and Artist.remove, as the patches of matplotlib behave.  *)
(***************************************************************************)
\* add_patch(component): an artist that sits in another Axes is refused; else
\* it is appended to the children and gets the list's remove as its hook.
AddPatch(a, i, st) ==
    IF st.fault # NoFault THEN st
    ELSE IF st.artist[i].axes \notin {NoAxes, a}
    THEN [st EXCEPT !.fault = ValueError]
    ELSE [fault |-> NoFault,
          children |-> [st.children EXCEPT ![a] = Append(@, i)],
          artist |-> [st.artist EXCEPT ![i].axes = a, ![i].removeMethod = a]]

RECURSIVE AddPatches(_, _, _, _)
AddPatches(a, i, n, st) ==
    IF i > n THEN st ELSE AddPatches(a, i + 1, n, AddPatch(a, i, st))

\* list.remove(e): drops the first occurrence.
RECURSIVE RemoveFirst(_, _)
RemoveFirst(s, e) ==
    IF s = <<>> THEN <<>>
    ELSE IF Head(s) = e THEN Tail(s)
    ELSE <<Head(s)>> \o RemoveFirst(Tail(s), e)

InList(s, e) == \E k \in DOMAIN s : s[k] = e

\* component.remove(): without a hook the artist cannot be removed; the hook
\* is the children list's remove; the artist is then decoupled from its Axes
\* and keeps its hook.
ArtistRemove(i, st) ==
    IF st.fault # NoFault THEN st
    ELSE LET a == st.artist[i].removeMethod
         IN  IF a = NoAxes THEN [st EXCEPT !.fault = NotImplementedError]
             ELSE IF ~InList(st.children[a], i) THEN [st EXCEPT !.fault = ValueError]
             ELSE [fault |-> NoFault,
                   children |-> [st.children EXCEPT ![a] = RemoveFirst(@, i)],
                   artist |-> [st.artist EXCEPT ![i].axes = NoAxes]]

\* Variant: the loop stops after the first component.
RemoveFirstOnly(i, n, st) ==
    IF n = 0 THEN st ELSE ArtistRemove(1, st)

RECURSIVE RemoveAll(_, _, _)
RemoveAll(i, n, st) ==
    IF i > n THEN st ELSE RemoveAll(i + 1, n, ArtistRemove(i, st))

(***************************************************************************)
(* The state machine.                                                      *)
(***************************************************************************)
\* A call: its name, the axes given to applyTo, the x and y given (None when
\* omitted), how it ended, and what height() returned.
Call(op, a, ox, oy, outcome, result) ==
    [op |-> op, axes |-> a, x |-> ox, y |-> oy, outcome |-> outcome, result |-> result]

Init ==
    /\ components \in SeqsUpTo(PatchSet, MaxComponents)
    /\ axes = NoAxes
    /\ x = None
    /\ y = None
    /\ artist = [i \in DOMAIN components |-> NewArtist]
    /\ view = [a \in AxesSet |-> [w |-> 1, h |-> 1]]
    /\ children = [a \in AxesSet |-> <<>>]
    /\ last = Call("init", NoAxes, None, None, NoFault, None)

\* Drawing.applyTo(axes, x, y)
applyTo(a, ax, ay) ==
    /\ Len(children[a]) + Len(components) <= MaxChildren
    /\ axes' = a
    /\ x' = Some(ax)
    /\ y' = Some(ay)
    /\ LET u == Retransform(a, Some(ax), Some(ay), components, artist)
           st == AddPatches(a, 1, Len(components),
                            [fault |-> u.fault, children |-> children, artist |-> u.artist])
       IN  /\ artist' = st.artist
           /\ children' = st.children
           /\ last' = Call("applyTo", a, Some(ax), Some(ay), st.fault, None)
    /\ UNCHANGED <<components, view>>

\* Variant: the coordinates are stored only once the scale has been computed.
updateStoreLast(ox, oy) ==
    LET u == Retransform(axes, Overwrite(x, ox), Overwrite(y, oy), components, artist)
    IN  /\ x' = IF u.fault = NoFault THEN Overwrite(x, ox) ELSE x
        /\ y' = IF u.fault = NoFault THEN Overwrite(y, oy) ELSE y
        /\ artist' = u.artist
        /\ last' = Call("update", NoAxes, ox, oy, u.fault, None)
        /\ UNCHANGED <<components, axes, view, children>>

\* Drawing.update(x, y), each argument None when omitted
update(ox, oy) ==
    /\ x' = Overwrite(x, ox)
    /\ y' = Overwrite(y, oy)
    /\ LET u == Retransform(axes, Overwrite(x, ox), Overwrite(y, oy), components, artist)
       IN  /\ artist' = u.artist
           /\ last' = Call("update", NoAxes, ox, oy, u.fault, None)
    /\ UNCHANGED <<components, axes, view, children>>

\* Drawing.height()
Height ==
    /\ LET h == height(components)
       IN  last' = Call("height", NoAxes, None, None, h.fault,
                        IF h.fault = NoFault THEN Some(h.value) ELSE None)
    /\ UNCHANGED <<components, axes, x, y, artist, view, children>>

\* Variant: remove() also forgets the Axes (self.axes = None).
removeAndForgetAxes ==
    /\ LET st == RemoveAll(1, Len(components),
                           [fault |-> NoFault, children |-> children, artist |-> artist])
       IN  /\ artist' = st.artist
           /\ children' = st.children
           /\ last' = Call("remove", NoAxes, None, None, st.fault, None)
    /\ axes' = NoAxes
    /\ UNCHANGED <<components, x, y, view>>

\* Drawing.remove()
remove ==
    /\ LET st == RemoveAll(1, Len(components),
                           [fault |-> NoFault, children |-> children, artist |-> artist])
       IN  /\ artist' = st.artist
           /\ children' = st.children
           /\ last' = Call("remove", NoAxes, None, None, st.fault, None)
    /\ UNCHANGED <<components, axes, x, y, view>>

\* The figure's limits change (a zoom): viewLim of one Axes gets new extents.
SetViewLim(a, w, h) ==
    /\ view[a] # [w |-> w, h |-> h]
    /\ view' = [view EXCEPT ![a] = [w |-> w, h |-> h]]
    /\ last' = Call("viewLim", NoAxes, None, None, NoFault, None)
    /\ UNCHANGED <<components, axes, x, y, artist, children>>

Next ==
    \/ \E a \in AxesSet, ax \in Coords, ay \in Coords : applyTo(a, ax, ay)
    \/ \E ox \in OptCoords, oy \in OptCoords : update(ox, oy)
    \/ Height
    \/ remove
    \/ \E a \in AxesSet, w \in ViewExtents, h \in ViewExtents : SetViewLim(a, w, h)

Spec == Init /\ [][Next]_vars

(***************************************************************************)
(* Vocabulary of the properties, stated on the state and not through the   *)
(* operators above.                                                        *)
(***************************************************************************)
N == Len(components)
Attached == axes # NoAxes /\ N >= 1

\* The y coordinates of the vertices of component i.
Ys(i) == { components[i][k][2] : k \in DOMAIN components[i] }
LargestY(i) == CHOOSE v \in Ys(i) : \A u \in Ys(i) : u <= v
SmallestY(i) == CHOOSE v \in Ys(i) : \A u \in Ys(i) : v <= u
HighestTop == CHOOSE v \in { LargestY(i) : i \in 1..N } : \A i \in 1..N : LargestY(i) <= v
LowestBottom == CHOOSE v \in { SmallestY(i) : i \in 1..N } : \A i \in 1..N : v <= SmallestY(i)
IntrinsicHeight == HighestTop - LowestBottom

\* q is the fourth power of sx = w * ((hgt / h) / 0.2) ** (3/4), in lowest
\* terms:  sx^4 = w^4 * (5 * hgt)^3 / h^3.
IsScaleOf(q, w, h, hgt) ==
    /\ q.den > 0
    /\ q.num * (h * h * h) = (w * w * w * w) * 125 * (hgt * hgt * hgt) * q.den
    /\ \A d \in 2..q.den : ~(q.num % d = 0 /\ q.den % d = 0)

\* t is scale(sx, 1), then translate(tx, ty), then the transData of Axes a,
\* with sx computed from the view bounds v.
IsPlacement(t, v, tx, ty, a) ==
    /\ t.order = <<"scale", "translate", "transData">>
    /\ IsScaleOf(t.sx, v.w, v.h, IntrinsicHeight)
    /\ t.sy = 1
    /\ t.tx = tx
    /\ t.ty = ty
    /\ t.data = a

Registered(i, a) == \E k \in DOMAIN children[a] : children[a][k] = i
Occurrences(i, a) == Cardinality({ k \in DOMAIN children[a] : children[a][k] = i })
\* Component i was on an Axes and has been taken off it.
Removed(i) == artist[i].removeMethod # NoAxes /\ artist[i].axes = NoAxes

(***************************************************************************)
(* Properties.                                                             *)
(***************************************************************************)

\* C1: after applyTo(axes, x, y) has completed on a Drawing with at least one
\* component, every component's transform is scale(sx, 1), then
\* translate(x, y), then the axes' transData, with sx computed from the axes'
\* view bounds at the time of the call, and every component is registered
\* with the axes.
C1_ApplyToPlacesEveryComponent ==
    (last.op = "applyTo" /\ last.outcome = NoFault /\ N >= 1) =>
        \A i \in 1..N :
            /\ IsPlacement(artist[i].transform, view[last.axes],
                           Val(last.x), Val(last.y), last.axes)
            /\ Registered(i, last.axes)

\* An arrow down to y = -2 and an arrow up to y = 1 (height 3) applied at
\* (1, 0) under a view 2 wide and 1 high: sx^4 = 2^4 * (5 * 3)^3 = 54000.
C1_Witness ==
    /\ last.op = "applyTo" /\ last.outcome = NoFault
    /\ components = <<ArrowDown, ArrowUp>>
    /\ view["ax1"] = [w |-> 2, h |-> 1]
    /\ last.x = Some(1) /\ last.y = Some(0)
    /\ artist[2].transform.sx = [num |-> 54000, den |-> 1]
    /\ artist[2].transform.tx = 1
    /\ children["ax1"] = <<1, 2>>

\* C2: on an attached Drawing, update() without arguments completes, leaves
\* the stored x and y as they were, and gives every component the transform
\* whose scale is computed from the view bounds as they are at this call.
C2_UpdateWithoutArguments ==
    [][(Attached /\ last'.op = "update" /\ last'.x = None /\ last'.y = None) =>
          /\ last'.outcome = NoFault
          /\ x' = x
          /\ y' = y
          /\ \A i \in 1..N :
                IsPlacement(artist'[i].transform, view[axes], Val(x), Val(y), axes)]_vars

\* update() after the view went from 1 x 1 to 2 x 2: the scale is that of the
\* new bounds, the position is the one applied.
C2_Witness ==
    /\ last.op = "update" /\ last.x = None /\ last.y = None /\ last.outcome = NoFault
    /\ components = <<ArrowDown>>
    /\ view["ax1"] = [w |-> 2, h |-> 2]
    /\ x = Some(1) /\ y = Some(1)
    /\ artist[1].transform.sx = [num |-> 2000, den |-> 1]
    /\ artist[1].transform.tx = 1

\* C3: on an attached Drawing, update(x=v) for any v, 0 included, stores v as
\* x, leaves y as it was and re-applies the whole transform to every
\* component; update(y=v) likewise changes only y.
C3_UpdateOneCoordinate ==
    [][(Attached /\ last'.op = "update") =>
          /\ (last'.x # None /\ last'.y = None) =>
                /\ last'.outcome = NoFault
                /\ x' = last'.x
                /\ y' = y
                /\ \A i \in 1..N :
                      IsPlacement(artist'[i].transform, view[axes],
                                  Val(last'.x), Val(y), axes)
          /\ (last'.x = None /\ last'.y # None) =>
                /\ last'.outcome = NoFault
                /\ y' = last'.y
                /\ x' = x
                /\ \A i \in 1..N :
                      IsPlacement(artist'[i].transform, view[axes],
                                  Val(x), Val(last'.y), axes)]_vars

\* update(x=0) on a Drawing standing at y = 1.
C3_Witness ==
    /\ last.op = "update" /\ last.x = Some(0) /\ last.y = None /\ last.outcome = NoFault
    /\ N = 2
    /\ x = Some(0) /\ y = Some(1)
    /\ \A i \in 1..N : artist[i].transform.tx = 0 /\ artist[i].transform.ty = 1

\* C4: remove() on a Drawing whose components are registered as one applyTo
\* (and any updates) leaves them, each once, completes and leaves none of the
\* components among the children of any Axes.
C4_RemoveDeregisters ==
    [][(/\ Attached
        /\ \A i \in 1..N : Occurrences(i, axes) = 1
        /\ last'.op = "remove") =>
          /\ last'.outcome = NoFault
          /\ \A a \in AxesSet : \A k \in DOMAIN children'[a] : children'[a][k] \notin 1..N]_vars

C4_Witness ==
    /\ last.op = "remove" /\ last.outcome = NoFault
    /\ N = 2
    /\ \A i \in 1..N : Removed(i)
    /\ \A a \in AxesSet : children[a] = <<>>

\* C5: with at least one component, height() returns the largest of the
\* components' top y minus the smallest of the components' bottom y, in
\* whatever state it is called (before applyTo, after it, after update,
\* after remove), and changes nothing.
C5_HeightIsIntrinsic ==
    [][last'.op = "height" =>
          /\ UNCHANGED <<components, axes, x, y, artist, view, children>>
          /\ N >= 1 => (last'.outcome = NoFault /\ last'.result = Some(IntrinsicHeight))]_vars

\* height() after applyTo and remove, on an arrow down to -2 and one up to 1.
C5_Witness ==
    /\ last.op = "height" /\ last.result = Some(3)
    /\ components = <<ArrowDown, ArrowUp>>
    /\ \A i \in 1..N : Removed(i) /\ artist[i].transform.order # <<>>

\* C6: on an attached Drawing, a call of update that directly follows a
\* completed call of update with the same arguments (the view bounds are then
\* the same) completes and leaves x, y, every transform and the children as
\* they were.
C6_UpdateIdempotent ==
    [][(/\ Attached
        /\ last.op = "update" /\ last.outcome = NoFault
        /\ last'.op = "update" /\ last'.x = last.x /\ last'.y = last.y) =>
          /\ last'.outcome = NoFault
          /\ UNCHANGED <<x, y, artist, children>>]_vars

C6_Witness ==
    /\ last.op = "update" /\ last.outcome = NoFault
    /\ last.x = Some(1) /\ last.y = Some(1)
    /\ Attached
    /\ view["ax1"] = [w |-> 2, h |-> 1]
    /\ x = Some(1) /\ y = Some(1)
    /\ ENABLED update(Some(1), Some(1))

\* C7, as claimed: update, height and remove each raise on a Drawing that was
\* never applied, and each raise on a Drawing without components.
C7_AllThreeFault ==
    (last.op \in {"update", "height", "remove"} /\ (axes = NoAxes \/ N = 0)) =>
        last.outcome # NoFault

\* C7, amended: update raises on a Drawing that was never applied or has no
\* components; height raises exactly when there are no components, applied
\* or not; remove raises on a never-applied Drawing that has components, and
\* completes on a Drawing without components.
C7_FaultsWhereTheCodeFaults ==
    /\ (last.op = "update" /\ (axes = NoAxes \/ N = 0)) => last.outcome # NoFault
    /\ last.op = "height" => (last.outcome # NoFault <=> N = 0)
    /\ (last.op = "remove" /\ axes = NoAxes /\ N >= 1) => last.outcome # NoFault
    /\ (last.op = "remove" /\ N = 0) => last.outcome = NoFault

\* height() on a Drawing that was never applied returns the height.
C7_Witness ==
    /\ last.op = "height" /\ last.outcome = NoFault /\ last.result = Some(3)
    /\ axes = NoAxes
    /\ N = 2

\* C8, as claimed: once every component has been removed, an applyTo on the
\* same Drawing does not put the components on an Axes again.
C8_NoApplyAfterRemove ==
    [][(/\ N >= 1
        /\ \A i \in 1..N : Removed(i)
        /\ last'.op = "applyTo") =>
          ~(/\ last'.outcome = NoFault
            /\ \A i \in 1..N : \E k \in DOMAIN children'[axes'] : children'[axes'][k] = i)]_vars

\* C8, amended: remove() decouples every patch from its Axes but leaves the
\* Drawing's axes, x, y and components as they were, and an applyTo on the
\* same Drawing after it completes and registers every component again.
C8_ApplyAfterRemoveSucceeds ==
    [][/\ last'.op = "remove" =>
            /\ UNCHANGED <<components, axes, x, y>>
            /\ last'.outcome = NoFault => \A i \in 1..N : artist'[i].axes = NoAxes
       /\ (/\ N >= 1
           /\ \A i \in 1..N : Removed(i)
           /\ last'.op = "applyTo") =>
             /\ last'.outcome = NoFault
             /\ \A i \in 1..N :
                   /\ artist'[i].axes = axes'
                   /\ \E k \in DOMAIN children'[axes'] : children'[axes'][k] = i]_vars

\* The removed Drawing, still holding its Axes and position, about to be
\* applied again.
C8_Witness ==
    /\ last.op = "remove" /\ last.outcome = NoFault
    /\ N = 2
    /\ \A i \in 1..N : Removed(i)
    /\ axes = "ax1" /\ x = Some(1)
    /\ ENABLED applyTo("ax1", 0, 0)

\* C9: once an applyTo has succeeded, in every state reached by updates and
\* view changes all components carry one and the same composed transform;
\* and no step changes the component list.
C9_OneTransformForAll ==
    /\ []((\E i \in 1..N : artist[i].removeMethod # NoAxes) =>
            \A i \in 1..N :
                /\ artist[i].transform.order = <<"scale", "translate", "transData">>
                /\ artist[i].transform = artist[1].transform)
    /\ [][components' = components]_vars

C9_Witness ==
    /\ N = 2
    /\ last.op = "update" /\ last.outcome = NoFault /\ last.x = Some(1) /\ last.y = None
    /\ view["ax1"] = [w |-> 1, h |-> 2]
    /\ artist[1].transform = artist[2].transform
    /\ artist[2].transform.tx = 1
    /\ artist[2].axes = "ax1"

\* C10: a call that raises still changes the Drawing: update(x=v) or
\* update(y=v) on a never-applied Drawing has stored v when it raises, and
\* applyTo on a Drawing without components has stored the axes, x and y when
\* it raises, with nothing registered on any Axes.
C10_FailedCallsLeaveTheirStores ==
    /\ (last.op = "update" /\ axes = NoAxes) =>
          /\ last.outcome # NoFault
          /\ last.x # None => x = last.x
          /\ last.y # None => y = last.y
    /\ (last.op = "applyTo" /\ N = 0) =>
          /\ last.outcome # NoFault
          /\ axes = last.axes
          /\ x = last.x
          /\ y = last.y
          /\ \A a \in AxesSet : children[a] = <<>>

C10_Witness ==
    /\ last.op = "update" /\ last.outcome = AttributeError
    /\ axes = NoAxes
    /\ last.x = Some(1) /\ last.y = None
    /\ x = Some(1) /\ y = None
    /\ N = 1

====
